---- MODULE Spec2Model ----
(***************************************************************************)
(* The Solara multi-page dashboard of pages/: 00_home.py (static text),    *)
(* 01_map.py (population sliders -> DuckDB query -> clustered map) and     *)
(* 02_app.py (country select -> DuckDB query -> map, table, chart).        *)
(*                                                                         *)
(* The module-level solara.reactive values of each page are the shared     *)
(* state; every effect function (use_effect body) and every render of a    *)
(* Page component is one atomic step, because the program is single-       *)
(* threaded and each handler blocks until it returns.  The remote CSV is   *)
(* the environment: its content is fixed per behaviour, and every access   *)
(* to it may fail.                                                         *)
(*                                                                         *)
(* A DataFrame is a sequence of row groups: a group is one record of       *)
(* column values together with n, the number of consecutive rows carrying  *)
(* exactly these values.  len(df) is the sum of the n.  This keeps the     *)
(* LIMIT 1000 of 01_map.py reachable.                                      *)
(***************************************************************************)
EXTENDS Integers, Sequences, FiniteSets, TLC

VARIABLES
    dataset,             \* which content the remote cities.csv has
    page,                \* the route currently mounted: "home", "map", "app"
    \* ---- 01_map.py reactive values (lines 18-22)
    data_df,
    status_message,
    min_pop_value,
    max_pop_value,
    country_pop_bounds,
    \* ---- 01_map.py component state (hooks of Page and CityMap)
    view,                \* what Page returned last: "none", "placeholder", "full"
    dirty,               \* a reactive value Page reads was set: re-render due
    filterDeps,          \* dependencies of the load_filtered_data effect at the last render
    pageEffects,         \* effects of Page scheduled by the last render, in order
    layerEffect,         \* update_layer scheduled by the last render of CityMap
    layerStale,          \* data_df was set to a new DataFrame since CityMap rendered
    prop_df,             \* the df argument update_layer closes over
    m_sources,           \* number of sources named city_source on the map m
    m_features,          \* the features of the source added last
    m_layers,            \* layer id -> number of layers with this id on m
    m_viewport,          \* [fitted, box]: the last fit_bounds, if any
    \* ---- 02_app.py reactive values (lines 13-15)
    all_countries,
    selected_country,
    app_data_df,
    \* ---- 02_app.py component state
    appView,             \* "none", "loadingList", "loadingData", "full"
    appDirty,
    appDeps,
    appEffects,
    \* ---- observation of the run
    bounds_loaded,       \* load_global_pop_bounds has returned at least once
    df_filter,           \* the (min, max) load_filtered_data read when it set data_df
    last                 \* what the handler that ran last did

mapReactive == <<data_df, status_message, min_pop_value, max_pop_value, country_pop_bounds>>
mapHooks == <<view, dirty, filterDeps, pageEffects, layerEffect, layerStale, prop_df>>
mapWidget == <<m_sources, m_features, m_layers, m_viewport>>
appReactive == <<all_countries, selected_country, app_data_df>>
appHooks == <<appView, appDirty, appDeps, appEffects>>
vars == <<dataset, page, mapReactive, mapHooks, mapWidget, appReactive, appHooks,
          bounds_loaded, df_filter, last>>

----------------------------------------------------------------------------
(* Program constants                                                       *)

MIN_POP_DEFAULT == 100000
MAX_POP_DEFAULT == 5000000
MAX_POP_SLIDER == 15000000
SLIDER_STEP == 50000
ROUND_TO == 100000
MAP_LIMIT == 1000
APP_LIMIT == 10

(* Bound of the model: the slider positions the user picks from are the    *)
(* first MaxSliderSteps steps above the lower end, and the top position.   *)
MaxSliderSteps == 3

SOURCE == "city_source"
CLUSTER_LAYER == "clusters"
CLUSTER_COUNT_LAYER == "cluster-count"
UNCLUSTERED_LAYER == "unclustered-point"
LayerIds == {CLUSTER_LAYER, CLUSTER_COUNT_LAYER, UNCLUSTERED_LAYER}

----------------------------------------------------------------------------
(* The remote CSV                                                          *)

Num(x) == [k |-> "num", v |-> x]
Bad == [k |-> "bad", v |-> 0]

City(nm, c, p, lat, lon, cnt) ==
    [name |-> nm, country |-> c, population |-> p, latitude |-> lat, longitude |-> lon, n |-> cnt]

(* "world": more than MAP_LIMIT rows inside the default interval, more      *)
(* than APP_LIMIT rows of one country, a maximum above MAX_POP_SLIDER.      *)
(* "badcoord": one row whose latitude is not a number.                      *)
(* "empty": a header and no rows.                                           *)
Cities(ds) ==
    CASE ds = "world" ->
           << City("Hsinchu", "TWN", 1200, Num(25), Num(121), 1),
              City("Tokyo", "JPN", 35676000, Num(36), Num(140), 1),
              City("Town", "USA", 150000, Num(40), Num(-100), 1200),
              City("Taipei", "TWN", 2600000, Num(25), Num(122), 1),
              City("Osaka", "JPN", 11294000, Num(35), Num(135), 1) >>
      [] ds = "badcoord" ->
           << City("Lima", "PER", 50000, Num(-12), Num(-77), 1),
              City("Oslo", "NOR", 200000, Bad, Num(11), 1),
              City("Rome", "ITA", 3000000, Num(42), Num(12), 1) >>
      [] OTHER -> << >>

DatasetNames == {"world", "badcoord", "empty"}

(* Collation of the country codes, for ORDER BY country.                    *)
CountryOrder == <<"ITA", "JPN", "NOR", "PER", "TWN", "USA">>
CountryRank(c) == CHOOSE i \in DOMAIN CountryOrder : CountryOrder[i] = c

----------------------------------------------------------------------------
(* SQL and DataFrame operations                                            *)

RECURSIVE Len_df(_)
Len_df(df) == IF df = << >> THEN 0 ELSE Head(df).n + Len_df(Tail(df))

RECURSIVE InsertDesc(_, _)
InsertDesc(r, s) ==
    IF s = << >> THEN <<r>>
    ELSE IF r.population > Head(s).population THEN <<r>> \o s
    ELSE <<Head(s)>> \o InsertDesc(r, Tail(s))

RECURSIVE OrderByPopulationDesc(_)
OrderByPopulationDesc(s) ==
    IF s = << >> THEN << >>
    ELSE InsertDesc(Head(s), OrderByPopulationDesc(Tail(s)))

RECURSIVE Limit(_, _)
Limit(s, k) ==
    IF s = << >> \/ k = 0 THEN << >>
    ELSE IF Head(s).n <= k THEN <<Head(s)>> \o Limit(Tail(s), k - Head(s).n)
    ELSE <<[Head(s) EXCEPT !.n = k]>>

SetMin(S) == CHOOSE x \in S : \A y \in S : x <= y
SetMax(S) == CHOOSE x \in S : \A y \in S : x >= y

Populations(ds) == {Cities(ds)[i].population : i \in DOMAIN Cities(ds)}

----------------------------------------------------------------------------
(* What the handler that ran last did                                      *)

Quiet ==
    [op |-> "", queried |-> FALSE, cause |-> "none", raised |-> FALSE,
     drawn |-> FALSE, fit |-> FALSE, hadLayers |-> FALSE, same |-> FALSE]

Did(name) == [Quiet EXCEPT !.op = name]

----------------------------------------------------------------------------
(* 01_map.py: load_global_pop_bounds                                       *)

CeilDiv(x, d) == -((-x) \div d)

(* SELECT MIN(population), MAX(population): both NULL over no rows.        *)
BoundsQuery(ds) ==
    IF Cities(ds) = << >>
    THEN [none |-> TRUE, lo |-> 0, hi |-> 0]
    ELSE [none |-> FALSE, lo |-> SetMin(Populations(ds)), hi |-> SetMax(Populations(ds))]

RoundedMax(max_pop_actual) ==
    LET r == CeilDiv(max_pop_actual, ROUND_TO) * ROUND_TO
    IN  IF r < ROUND_TO THEN ROUND_TO ELSE r

FallbackBounds_DefaultMax == <<0, MAX_POP_DEFAULT>>

FallbackBounds == <<0, MAX_POP_SLIDER>>

load_global_pop_bounds ==
    /\ page = "map"
    /\ pageEffects # << >>
    /\ Head(pageEffects) = "load_global_pop_bounds"
    /\ \E reachable \in BOOLEAN :
         IF reachable
         THEN LET result == BoundsQuery(dataset)
                  min_pop_actual == IF result.none THEN 0 ELSE result.lo
                  max_pop_actual == IF result.none THEN MAX_POP_SLIDER ELSE result.hi
                  max_pop_rounded == RoundedMax(max_pop_actual)
              IN  /\ country_pop_bounds' = <<min_pop_actual, max_pop_rounded>>
                  /\ min_pop_value' = min_pop_actual
                  /\ max_pop_value' = max_pop_rounded
                  /\ status_message' = "boundsLoaded"
                  /\ last' = [Did("load_global_pop_bounds") EXCEPT !.queried = TRUE]
         ELSE /\ status_message' = "errBounds"
              /\ country_pop_bounds' = FallbackBounds
              /\ UNCHANGED <<min_pop_value, max_pop_value>>
              /\ last' = [Did("load_global_pop_bounds") EXCEPT
                             !.queried = TRUE, !.cause = "unreachable"]
    /\ pageEffects' = Tail(pageEffects)
    /\ dirty' = TRUE
    /\ bounds_loaded' = TRUE
    /\ UNCHANGED <<dataset, page, data_df, view, filterDeps, layerEffect, layerStale,
                   prop_df, mapWidget, appReactive, appHooks, df_filter>>

----------------------------------------------------------------------------
(* 01_map.py: load_filtered_data                                           *)

MinMaxViolated_OrEqual(min_pop, max_pop) == min_pop >= max_pop

MinMaxViolated(min_pop, max_pop) == min_pop > max_pop

Between(p, lo, hi) == lo <= p /\ p <= hi

QueryCities_Unordered(ds, min_pop, max_pop) ==
    Limit(SelectSeq(Cities(ds), LAMBDA r : Between(r.population, min_pop, max_pop)),
          MAP_LIMIT)

QueryCities(ds, min_pop, max_pop) ==
    Limit(OrderByPopulationDesc(
              SelectSeq(Cities(ds), LAMBDA r : Between(r.population, min_pop, max_pop))),
          MAP_LIMIT)

(* Series.astype(float) raises on the first value that is not a number.    *)
AsTypeFloatRaises(df, col) == \E i \in DOMAIN df : df[i][col].k = "bad"

QueryFailureDf_Kept == data_df

QueryFailureDf == << >>

load_filtered_data ==
    /\ page = "map"
    /\ pageEffects # << >>
    /\ Head(pageEffects) = "load_filtered_data"
    /\ LET min_pop == min_pop_value
           max_pop == max_pop_value
       IN  /\ IF MinMaxViolated(min_pop, max_pop)
              THEN /\ status_message' = "errMinMax"
                   /\ data_df' = << >>
                   /\ last' = [Did("load_filtered_data") EXCEPT !.cause = "minmax"]
              ELSE \E reachable \in BOOLEAN :
                     LET df_result == QueryCities(dataset, min_pop, max_pop)
                         cause == IF ~reachable THEN "unreachable"
                                  ELSE IF \/ AsTypeFloatRaises(df_result, "latitude")
                                          \/ AsTypeFloatRaises(df_result, "longitude")
                                       THEN "coercion"
                                       ELSE "none"
                     IN  /\ IF cause = "none"
                            THEN /\ data_df' = df_result
                                 /\ status_message' = "loaded"
                            ELSE /\ status_message' = "errQuery"
                                 /\ data_df' = QueryFailureDf
                         /\ last' = [Did("load_filtered_data") EXCEPT
                                        !.queried = TRUE, !.cause = cause]
           /\ df_filter' = <<min_pop, max_pop>>
    /\ pageEffects' = Tail(pageEffects)
    /\ layerStale' = TRUE
    /\ dirty' = TRUE
    /\ UNCHANGED <<dataset, page, min_pop_value, max_pop_value, country_pop_bounds,
                   view, filterDeps, layerEffect, prop_df, mapWidget,
                   appReactive, appHooks, bounds_loaded>>

----------------------------------------------------------------------------
(* 01_map.py: CityMap.update_layer                                         *)

(* m.remove_layer / m.remove_source inside try/except: the layer or source  *)
(* is gone afterwards whether or not it was there.                         *)
RemovedLayers(layers) == [id \in LayerIds |-> 0]

RemovedSources(count) == 0

DfEmpty_Never(df) == FALSE

DfEmpty(df) == df = << >>

(* A tuple assignment of the values to nTargets names raises ValueError    *)
(* unless there are exactly nTargets values.                               *)
UnpackRaises(nTargets, values) == Len(values) # nTargets

CoordsOk(row) == row.longitude.k = "num" /\ row.latitude.k = "num"

Feature(row) ==
    [coordinates |-> <<row.longitude.v, row.latitude.v>>,
     name |-> row.name, population |-> row.population, n |-> row.n]

Features(df) ==
    LET kept == SelectSeq(df, CoordsOk)
    IN  [i \in DOMAIN kept |-> Feature(kept[i])]

FitBounds(features) ==
    LET lons == {features[i].coordinates[1] : i \in DOMAIN features}
        lats == {features[i].coordinates[2] : i \in DOMAIN features}
    IN  [fitted |-> TRUE,
         box |-> <<SetMin(lons), SetMin(lats), SetMax(lons), SetMax(lats)>>]

InitialViewport == [fitted |-> FALSE, box |-> <<0, 0, 0, 0>>]

HasDataLayers == m_sources > 0 \/ \E id \in LayerIds : m_layers[id] > 0

(* Line 120 reads "features = []; lats, lons = []": the second statement   *)
(* unpacks an empty list into two names.  It is outside every try, so the  *)
(* exception leaves update_layer; the statements after it are modelled as  *)
(* written, behind it.  The page keeps reacting after the exception.       *)
update_layer ==
    /\ page = "map"
    /\ layerEffect
    /\ LET df == prop_df
           layers0 == RemovedLayers(m_layers)
           sources0 == RemovedSources(m_sources)
           features == Features(df)
           did == [Did("update_layer") EXCEPT !.hadLayers = HasDataLayers]
           removedOnly == /\ m_layers' = layers0
                          /\ m_sources' = sources0
                          /\ m_features' = IF sources0 = 0 THEN << >> ELSE m_features
                          /\ UNCHANGED m_viewport
       IN  IF DfEmpty(df)
           THEN /\ removedOnly
                /\ last' = did
                /\ UNCHANGED status_message
           ELSE IF UnpackRaises(2, << >>)
           THEN /\ removedOnly
                /\ last' = [did EXCEPT !.raised = TRUE]
                /\ UNCHANGED status_message
           ELSE IF features = << >>
           THEN /\ removedOnly
                /\ status_message' = "warnNoPoints"
                /\ last' = did
           ELSE /\ m_sources' = sources0 + 1
                /\ m_layers' = [id \in LayerIds |-> layers0[id] + 1]
                /\ m_features' = features
                /\ m_viewport' = FitBounds(features)
                /\ status_message' = "rendered"
                /\ last' = [did EXCEPT !.drawn = TRUE, !.fit = TRUE,
                                       !.same = (HasDataLayers /\ m_features = features)]
    /\ layerEffect' = FALSE
    /\ dirty' = (dirty \/ status_message' # status_message)
    /\ UNCHANGED <<dataset, page, data_df, min_pop_value, max_pop_value,
                   country_pop_bounds, view, filterDeps, pageEffects, layerStale,
                   prop_df, appReactive, appHooks, bounds_loaded, df_filter>>

----------------------------------------------------------------------------
(* 01_map.py: Page and CityMap renders                                     *)

(* status_message.value.startswith of the bounds loader's progress text:   *)
(* only the text set at line 30 begins with it; the initial text of line   *)
(* 19 and the query progress text of line 61 begin differently.            *)
StartsWithLoading(status) == status = "loadingBounds"

FilterDeps == <<min_pop_value, max_pop_value>>

ShowsPlaceholder ==
    country_pop_bounds[2] = MAX_POP_SLIDER /\ StartsWithLoading(status_message)

UnmountedMapHooks ==
    /\ view' = "none"
    /\ dirty' = FALSE
    /\ filterDeps' = << >>
    /\ pageEffects' = << >>
    /\ layerEffect' = FALSE
    /\ layerStale' = FALSE
    /\ prop_df' = << >>

FreshMap ==
    /\ m_sources' = 0
    /\ m_features' = << >>
    /\ m_layers' = [id \in LayerIds |-> 0]
    /\ m_viewport' = InitialViewport

MapIdle == view # "none" /\ ~dirty /\ pageEffects = << >> /\ ~layerEffect

RenderPage ==
    /\ page = "map"
    /\ pageEffects = << >>
    /\ ~layerEffect
    /\ view = "none" \/ dirty
    /\ pageEffects' = IF view = "none"
                      THEN <<"load_global_pop_bounds", "load_filtered_data">>
                      ELSE IF filterDeps # FilterDeps
                      THEN <<"load_filtered_data">>
                      ELSE << >>
    /\ filterDeps' = FilterDeps
    /\ IF ShowsPlaceholder
       THEN /\ view' = "placeholder"
            /\ layerEffect' = FALSE
            /\ prop_df' = << >>
            /\ FreshMap
            /\ UNCHANGED layerStale
       ELSE /\ view' = "full"
            /\ prop_df' = data_df
            /\ layerStale' = FALSE
            /\ IF view = "full"
               THEN layerEffect' = layerStale /\ UNCHANGED mapWidget
               ELSE layerEffect' = TRUE /\ FreshMap
    /\ dirty' = FALSE
    /\ last' = Did("Page")
    /\ UNCHANGED <<dataset, page, mapReactive, appReactive, appHooks,
                   bounds_loaded, df_filter>>

(* The positions of a SliderInt(min=lo, max=hi, step=SLIDER_STEP).         *)
SliderValues(lo, hi) ==
    {v \in {lo + k * SLIDER_STEP :
              k \in (0 .. MaxSliderSteps) \cup {(hi - lo) \div SLIDER_STEP}} : v <= hi}

SlideMin ==
    /\ page = "map"
    /\ view = "full"
    /\ MapIdle
    /\ \E v \in SliderValues(country_pop_bounds[1], country_pop_bounds[2]) :
         /\ v # min_pop_value
         /\ min_pop_value' = v
    /\ dirty' = TRUE
    /\ last' = Did("slide")
    /\ UNCHANGED <<dataset, page, data_df, status_message, max_pop_value,
                   country_pop_bounds, view, filterDeps, pageEffects, layerEffect,
                   layerStale, prop_df, mapWidget, appReactive, appHooks,
                   bounds_loaded, df_filter>>

SlideMax ==
    /\ page = "map"
    /\ view = "full"
    /\ MapIdle
    /\ \E v \in SliderValues(country_pop_bounds[1], country_pop_bounds[2]) :
         /\ v # max_pop_value
         /\ max_pop_value' = v
    /\ dirty' = TRUE
    /\ last' = Did("slide")
    /\ UNCHANGED <<dataset, page, data_df, status_message, min_pop_value,
                   country_pop_bounds, view, filterDeps, pageEffects, layerEffect,
                   layerStale, prop_df, mapWidget, appReactive, appHooks,
                   bounds_loaded, df_filter>>

----------------------------------------------------------------------------
(* 02_app.py                                                               *)

CountriesOf(ds) == {Cities(ds)[i].country : i \in DOMAIN Cities(ds)}

(* SELECT DISTINCT country ... ORDER BY country                            *)
CountryList(ds) ==
    LET S == CountriesOf(ds)
    IN  [i \in 1 .. Cardinality(S) |->
           CHOOSE c \in S :
             Cardinality({d \in S : CountryRank(d) < CountryRank(c)}) = i - 1]

InList(c, list) == \E i \in DOMAIN list : list[i] = c

QueryCountry(ds, country_name) ==
    Limit(OrderByPopulationDesc(
              SelectSeq(Cities(ds), LAMBDA r : r.country = country_name)),
          APP_LIMIT)

UnmountedAppHooks ==
    /\ appView' = "none"
    /\ appDirty' = FALSE
    /\ appDeps' = << >>
    /\ appEffects' = << >>

AppIdle == appView # "none" /\ ~appDirty /\ appEffects = << >>

AppPage ==
    /\ page = "app"
    /\ appEffects = << >>
    /\ appView = "none" \/ appDirty
    /\ appEffects' = IF appView = "none"
                     THEN <<"load_country_list", "load_filtered_data">>
                     ELSE IF appDeps # <<selected_country>>
                     THEN <<"load_filtered_data">>
                     ELSE << >>
    /\ appDeps' = <<selected_country>>
    /\ appView' = IF selected_country # "" /\ app_data_df # << >> THEN "full"
                  ELSE IF selected_country # "" THEN "loadingData"
                  ELSE "loadingList"
    /\ appDirty' = FALSE
    /\ last' = Did("app.Page")
    /\ UNCHANGED <<dataset, page, mapReactive, mapHooks, mapWidget, appReactive,
                   bounds_loaded, df_filter>>

load_country_list ==
    /\ page = "app"
    /\ appEffects # << >>
    /\ Head(appEffects) = "load_country_list"
    /\ \E reachable \in BOOLEAN :
         IF reachable
         THEN LET country_list == CountryList(dataset)
              IN  /\ all_countries' = country_list
                  /\ selected_country' =
                        IF InList("USA", country_list) THEN "USA"
                        ELSE IF country_list # << >> THEN country_list[1]
                        ELSE selected_country
                  /\ last' = [Did("load_country_list") EXCEPT !.queried = TRUE]
         ELSE /\ UNCHANGED <<all_countries, selected_country>>
              /\ last' = [Did("load_country_list") EXCEPT
                             !.queried = TRUE, !.cause = "unreachable"]
    /\ appEffects' = Tail(appEffects)
    /\ appDirty' = (appDirty \/ all_countries' # all_countries
                             \/ selected_country' # selected_country)
    /\ UNCHANGED <<dataset, page, mapReactive, mapHooks, mapWidget, app_data_df,
                   appView, appDeps, bounds_loaded, df_filter>>

app_load_filtered_data ==
    /\ page = "app"
    /\ appEffects # << >>
    /\ Head(appEffects) = "load_filtered_data"
    /\ LET country_name == selected_country
       IN  IF country_name = ""
           THEN /\ UNCHANGED <<app_data_df, appDirty>>
                /\ last' = Did("app.load_filtered_data")
           ELSE \E reachable \in BOOLEAN :
                  /\ app_data_df' = IF reachable THEN QueryCountry(dataset, country_name)
                                    ELSE << >>
                  /\ appDirty' = TRUE
                  /\ last' = [Did("app.load_filtered_data") EXCEPT
                                 !.queried = TRUE,
                                 !.cause = IF reachable THEN "none" ELSE "unreachable"]
    /\ appEffects' = Tail(appEffects)
    /\ UNCHANGED <<dataset, page, mapReactive, mapHooks, mapWidget, all_countries,
                   selected_country, appView, appDeps, bounds_loaded, df_filter>>

SelectCountry ==
    /\ page = "app"
    /\ AppIdle
    /\ \E i \in DOMAIN all_countries :
         /\ all_countries[i] # selected_country
         /\ selected_country' = all_countries[i]
    /\ appDirty' = TRUE
    /\ last' = Did("select")
    /\ UNCHANGED <<dataset, page, mapReactive, mapHooks, mapWidget, all_countries,
                   app_data_df, appView, appDeps, appEffects, bounds_loaded, df_filter>>

----------------------------------------------------------------------------
(* Routing between the files of pages/: the page left is unmounted, its    *)
(* hooks (effect dependencies, the memoized map) are dropped, the          *)
(* module-level reactive values stay.                                      *)

Idle ==
    CASE page = "map" -> MapIdle
      [] page = "app" -> AppIdle
      [] OTHER -> TRUE

Navigate ==
    /\ Idle
    /\ \E p \in {"home", "map", "app"} :
         /\ p # page
         /\ page' = p
    /\ UnmountedMapHooks
    /\ FreshMap
    /\ UnmountedAppHooks
    /\ last' = Did("navigate")
    /\ UNCHANGED <<dataset, mapReactive, appReactive, bounds_loaded, df_filter>>

----------------------------------------------------------------------------

Init ==
    /\ dataset \in DatasetNames
    /\ page = "home"
    /\ data_df = << >>
    /\ status_message = "init"
    /\ min_pop_value = MIN_POP_DEFAULT
    /\ max_pop_value = MAX_POP_DEFAULT
    /\ country_pop_bounds = <<0, MAX_POP_SLIDER>>
    /\ view = "none"
    /\ dirty = FALSE
    /\ filterDeps = << >>
    /\ pageEffects = << >>
    /\ layerEffect = FALSE
    /\ layerStale = FALSE
    /\ prop_df = << >>
    /\ m_sources = 0
    /\ m_features = << >>
    /\ m_layers = [id \in LayerIds |-> 0]
    /\ m_viewport = InitialViewport
    /\ all_countries = << >>
    /\ selected_country = ""
    /\ app_data_df = << >>
    /\ appView = "none"
    /\ appDirty = FALSE
    /\ appDeps = << >>
    /\ appEffects = << >>
    /\ bounds_loaded = FALSE
    /\ df_filter = << >>
    /\ last = Quiet

Next ==
    \/ Navigate
    \/ RenderPage
    \/ load_global_pop_bounds
    \/ load_filtered_data
    \/ update_layer
    \/ SlideMin
    \/ SlideMax
    \/ AppPage
    \/ load_country_list
    \/ app_load_filtered_data
    \/ SelectCountry

Spec == Init /\ [][Next]_vars

----------------------------------------------------------------------------
(* Properties                                                              *)

IsErrorStatus(status) == status \in {"errBounds", "errMinMax", "errQuery"}

UpdateLayerStep == layerEffect /\ ~layerEffect'

BoundsLoaderStep ==
    /\ pageEffects # << >>
    /\ Head(pageEffects) = "load_global_pop_bounds"
    /\ pageEffects' = Tail(pageEffects)

ExactlyOneLayerSet == m_sources = 1 /\ \A id \in LayerIds : m_layers[id] = 1

NoDataLayer == m_sources = 0 /\ \A id \in LayerIds : m_layers[id] = 0

(* C1: after an update_layer run whose df had at least one row with valid  *)
(* coordinates, the map holds exactly one city_source source and exactly   *)
(* one layer of each of the three ids, whatever the map held before.       *)
C1_ExactlyOneLayerSetAfterRender ==
    (last.op = "update_layer" /\ Features(prop_df) # << >>) => ExactlyOneLayerSet

(* C2: a load_filtered_data run with min_pop_value > max_pop_value issues   *)
(* no query, empties data_df and sets an error status; with                *)
(* min_pop_value <= max_pop_value (equality included) a query is issued.    *)
C2_MinAboveMaxShortCircuits ==
    last.op = "load_filtered_data" =>
        IF min_pop_value > max_pop_value
        THEN ~last.queried /\ data_df = << >> /\ IsErrorStatus(status_message)
        ELSE last.queried

C2_Witness ==
    last.op = "load_filtered_data" /\ min_pop_value > max_pop_value

(* C3: a load_filtered_data run whose query fails ends with data_df empty  *)
(* and the query error status; an update_layer run on an empty df while    *)
(* that status is shown leaves no data layer and keeps the status.         *)
C3_QueryFailureRecovered ==
    [][ /\ (/\ pageEffects # << >>
            /\ Head(pageEffects) = "load_filtered_data"
            /\ pageEffects' = Tail(pageEffects)
            /\ last'.cause \in {"unreachable", "coercion"})
           => (data_df' = << >> /\ status_message' = "errQuery" /\ ~last'.raised)
        /\ (UpdateLayerStep /\ prop_df = << >> /\ status_message = "errQuery")
           => (NoDataLayer' /\ ~last'.raised /\ status_message' = "errQuery") ]_vars

(* update_layer has run on the empty df of a failed query.                 *)
C3_Witness ==
    /\ last.op = "update_layer"
    /\ df_filter # << >>
    /\ prop_df = << >>
    /\ data_df = << >>
    /\ status_message = "errQuery"

(* C4: an update_layer run on an empty df, from a map with or without data *)
(* layers, completes without raising, leaves no city_source source and     *)
(* none of the three layers and does not call fit_bounds: the viewport is  *)
(* what it was.                                                            *)
C4_EmptyResultClearsMap ==
    [][ (UpdateLayerStep /\ prop_df = << >>)
           => /\ NoDataLayer'
              /\ m_viewport' = m_viewport
              /\ ~last'.fit
              /\ ~last'.raised ]_vars

(* update_layer has run on the empty df that a min > max selection left.   *)
C4_Witness ==
    /\ last.op = "update_layer"
    /\ prop_df = << >>
    /\ ~last.raised
    /\ status_message = "errMinMax"

(* C5: a load_global_pop_bounds run whose query fails raises nothing, sets  *)
(* country_pop_bounds to (0, 15000000) and an error status and leaves      *)
(* min_pop_value and max_pop_value as they were.                           *)
C5_BoundsFallback ==
    [][ (BoundsLoaderStep /\ last'.cause = "unreachable")
           => /\ country_pop_bounds' = <<0, 15000000>>
              /\ IsErrorStatus(status_message')
              /\ min_pop_value' = min_pop_value
              /\ max_pop_value' = max_pop_value
              /\ ~last'.raised ]_vars

(* The loader failed while a selection other than the defaults was held.   *)
C5_Witness ==
    /\ last.op = "load_global_pop_bounds"
    /\ last.cause = "unreachable"
    /\ min_pop_value # MIN_POP_DEFAULT
    /\ max_pop_value # MAX_POP_DEFAULT

RECURSIVE RowsTaken(_, _)
RowsTaken(df, row) ==
    IF df = << >> THEN 0
    ELSE (IF [Head(df) EXCEPT !.n = row.n] = row THEN Head(df).n ELSE 0)
         + RowsTaken(Tail(df), row)

(* df is the cap highest-population rows of ds that satisfy P, in          *)
(* descending population order.                                            *)
IsTopByPopulation(df, ds, P(_), cap) ==
    /\ \A i \in DOMAIN df : P(df[i]) /\ df[i].n >= 1
    /\ \A i, j \in DOMAIN df : i < j => df[i].population >= df[j].population
    /\ Len_df(df) <= cap
    /\ \A i \in DOMAIN df :
         \E k \in DOMAIN Cities(ds) : [df[i] EXCEPT !.n = Cities(ds)[k].n] = Cities(ds)[k]
    /\ \A k \in DOMAIN Cities(ds) :
         LET row == Cities(ds)[k]
         IN  /\ RowsTaken(df, row) <= row.n
             /\ P(row) =>
                  \/ RowsTaken(df, row) = row.n
                  \/ /\ Len_df(df) = cap
                     /\ \A i \in DOMAIN df : df[i].population >= row.population

SortedWithin(df, cap) ==
    /\ \A i, j \in DOMAIN df : i < j => df[i].population >= df[j].population
    /\ Len_df(df) <= cap

InDomain(v) == country_pop_bounds[1] <= v /\ v <= country_pop_bounds[2]

(* C7: whenever load_filtered_data issues a query, min_pop_value and       *)
(* max_pop_value both lie inside country_pop_bounds.                       *)
C7_SelectionInsideDomainAtQuery ==
    (last.op = "load_filtered_data" /\ last.queried)
        => (InDomain(min_pop_value) /\ InDomain(max_pop_value))

(* C8: Page renders the sliders only after load_global_pop_bounds has      *)
(* completed; every earlier render returns the loading placeholder.        *)
C8_SlidersOnlyAfterBoundsLoaded ==
    view = "full" => bounds_loaded

(* C9: when the dataset answered the query, data_df holds every matching   *)
(* row whose coordinates are numbers, rows that fail coercion are dropped, *)
(* and status_message is no error.                                         *)
C9_BadRowsDroppedOnly ==
    (last.op = "load_filtered_data" /\ last.queried /\ last.cause # "unreachable")
        => /\ data_df = SelectSeq(QueryCities(dataset, min_pop_value, max_pop_value),
                                  CoordsOk)
           /\ ~IsErrorStatus(status_message)

Outcomes(min_pop, max_pop) ==
    IF min_pop > max_pop THEN {<< >>}
    ELSE {<< >>, QueryCities(dataset, min_pop, max_pop)}

(* C10: once no render and no effect is pending on the map page, data_df   *)
(* is what load_filtered_data produced for the current (min_pop_value,     *)
(* max_pop_value) and the map shows the features of that data_df.          *)
C10_SettledStateIsCurrent ==
    (page = "map" /\ MapIdle)
        => /\ df_filter = <<min_pop_value, max_pop_value>>
           /\ data_df \in Outcomes(min_pop_value, max_pop_value)
           /\ m_features = Features(data_df)
           /\ IF Features(data_df) = << >> THEN NoDataLayer ELSE ExactlyOneLayerSet

====
